---- MODULE Spec2Model ----
(***************************************************************************)
(* Model of simulator/pivot_device_sim.py: the MQTT device simulator       *)
(* PivotSim.  The main thread runs connect() and run_forever(); the        *)
(* broker-client loop thread started by loop_start() runs the callbacks    *)
(* _on_connect, _on_disconnect and _on_message, one at a time.             *)
(*                                                                         *)
(* Strings that the code transforms (lower, upper, strip, f-strings) are   *)
(* sequences of characters.  A character is a one-character string; a      *)
(* character that cannot be written in a string of this module is written  *)
(* by its code point, "U+017F".  Topics are sequences of path levels (the  *)
(* text between the "/" separators).  JSON values are records [t, s, n]: t *)
(* is the JSON type, s the characters of a string, n the number (or 0/1    *)
(* for false/true).  A JSON object has t = "obj" and a fourth field o, the *)
(* function from its keys to their JSON values; a key that is absent is    *)
(* not in DOMAIN o.                                                        *)
(* Probabilities are in tenths (10 is 1.0), durations in seconds.          *)
(***************************************************************************)
EXTENDS Integers, Sequences, FiniteSets, TLC

VARIABLES args, sim, main_pc, conn, subs, loop_pc, cur, log, nmsgs, nconn,
          status, seen, todo

vars == <<args, sim, main_pc, conn, subs, loop_pc, cur, log, nmsgs, nconn,
          status, seen, todo>>

(* ------------------------------ bounds --------------------------------- *)
\* inbound messages delivered in one run
MaxMsgs == 2
\* sessions opened by the broker client in one run (first connect + reconnects)
MaxConnects == 2

(* --------------------------- JSON values ------------------------------- *)
JStr(chars) == [t |-> "str", s |-> chars, n |-> 0]
JInt(k) == [t |-> "int", s |-> <<>>, n |-> k]
JBool(b) == [t |-> "bool", s |-> <<>>, n |-> IF b THEN 1 ELSE 0]
JNull == [t |-> "null", s |-> <<>>, n |-> 0]
\* marks a key left out of an object when the inputs are built
Absent == [t |-> "absent", s |-> <<>>, n |-> 0]
\* the outcome of an expression that raises (AttributeError on a non-string)
Raise == [t |-> "raise", s |-> <<>>, n |-> 0]

\* a dict with the members o
JObj(o) == [t |-> "obj", s |-> <<>>, n |-> 0, o |-> o]
\* {}
NoObj == JObj([k \in {} |-> JNull])
\* isinstance(v, dict): only a dict has the method get
IsObj(v) == v.t = "obj"

\* Python truth value of a JSON value
truthy(v) ==
    CASE v.t = "str" -> v.s # <<>>
      [] v.t = "int" -> v.n # 0
      [] v.t = "bool" -> v.n # 0
      [] v.t = "obj" -> DOMAIN v.o # {}
      [] OTHER -> FALSE

\* d.get(k) and d.get(k, default)
get(d, k) == IF k \in DOMAIN d.o THEN d.o[k] ELSE JNull
get_default(d, k, default) == IF k \in DOMAIN d.o THEN d.o[k] ELSE default

\* x or ""
or_empty(v) == IF truthy(v) THEN v ELSE JStr(<<>>)

(* ------------------------------ strings -------------------------------- *)
\* the characters of the model: U+0000 to U+017F, the characters that
\* str.isspace() holds for, and what upper() and lower() make of these
Alphabet ==
    {"U+0000", "U+0001", "U+0002", "U+0003", "U+0004", "U+0005", "U+0006",
     "U+0007", "U+0008", "\t", "\n", "U+000B", "\f", "\r", "U+000E", "U+000F",
     "U+0010", "U+0011", "U+0012", "U+0013", "U+0014", "U+0015", "U+0016",
     "U+0017", "U+0018", "U+0019", "U+001A", "U+001B", "U+001C", "U+001D",
     "U+001E", "U+001F", " ", "!", "\"", "#", "$", "%", "&", "'", "(", ")",
     "*", "+", ",", "-", ".", "/", "0", "1", "2", "3", "4", "5", "6", "7",
     "8", "9", ":", ";", "<", "=", ">", "?", "@", "A", "B", "C", "D", "E",
     "F", "G", "H", "I", "J", "K", "L", "M", "N", "O", "P", "Q", "R", "S",
     "T", "U", "V", "W", "X", "Y", "Z", "[", "\\", "]", "^", "_", "U+0060",
     "a", "b", "c", "d", "e", "f", "g", "h", "i", "j", "k", "l", "m", "n",
     "o", "p", "q", "r", "s", "t", "u", "v", "w", "x", "y", "z", "{", "|",
     "}", "~", "U+007F", "U+0080", "U+0081", "U+0082", "U+0083", "U+0084",
     "U+0085", "U+0086", "U+0087", "U+0088", "U+0089", "U+008A", "U+008B",
     "U+008C", "U+008D", "U+008E", "U+008F", "U+0090", "U+0091", "U+0092",
     "U+0093", "U+0094", "U+0095", "U+0096", "U+0097", "U+0098", "U+0099",
     "U+009A", "U+009B", "U+009C", "U+009D", "U+009E", "U+009F", "U+00A0",
     "¡", "¢", "£", "¤", "¥", "¦", "§", "¨", "©", "ª", "«", "¬", "U+00AD",
     "®", "¯", "°", "±", "²", "³", "´", "µ", "¶", "·", "¸", "¹", "º", "»",
     "¼", "½", "¾", "¿", "À", "Á", "Â", "Ã", "Ä", "Å", "Æ", "Ç", "È", "É",
     "Ê", "Ë", "Ì", "Í", "Î", "Ï", "Ð", "Ñ", "Ò", "Ó", "Ô", "Õ", "Ö", "×",
     "Ø", "Ù", "Ú", "Û", "Ü", "Ý", "Þ", "ß", "à", "á", "â", "ã", "ä", "å",
     "æ", "ç", "è", "é", "ê", "ë", "ì", "í", "î", "ï", "ð", "ñ", "ò", "ó",
     "ô", "õ", "ö", "÷", "ø", "ù", "ú", "û", "ü", "ý", "þ", "ÿ", "U+0100",
     "U+0101", "U+0102", "U+0103", "U+0104", "U+0105", "U+0106", "U+0107",
     "U+0108", "U+0109", "U+010A", "U+010B", "U+010C", "U+010D", "U+010E",
     "U+010F", "U+0110", "U+0111", "U+0112", "U+0113", "U+0114", "U+0115",
     "U+0116", "U+0117", "U+0118", "U+0119", "U+011A", "U+011B", "U+011C",
     "U+011D", "U+011E", "U+011F", "U+0120", "U+0121", "U+0122", "U+0123",
     "U+0124", "U+0125", "U+0126", "U+0127", "U+0128", "U+0129", "U+012A",
     "U+012B", "U+012C", "U+012D", "U+012E", "U+012F", "U+0130", "U+0131",
     "U+0132", "U+0133", "U+0134", "U+0135", "U+0136", "U+0137", "U+0138",
     "U+0139", "U+013A", "U+013B", "U+013C", "U+013D", "U+013E", "U+013F",
     "U+0140", "U+0141", "U+0142", "U+0143", "U+0144", "U+0145", "U+0146",
     "U+0147", "U+0148", "U+0149", "U+014A", "U+014B", "U+014C", "U+014D",
     "U+014E", "U+014F", "U+0150", "U+0151", "U+0152", "U+0153", "U+0154",
     "U+0155", "U+0156", "U+0157", "U+0158", "U+0159", "U+015A", "U+015B",
     "U+015C", "U+015D", "U+015E", "U+015F", "U+0160", "U+0161", "U+0162",
     "U+0163", "U+0164", "U+0165", "U+0166", "U+0167", "U+0168", "U+0169",
     "U+016A", "U+016B", "U+016C", "U+016D", "U+016E", "U+016F", "U+0170",
     "U+0171", "U+0172", "U+0173", "U+0174", "U+0175", "U+0176", "U+0177",
     "U+0178", "U+0179", "U+017A", "U+017B", "U+017C", "U+017D", "U+017E",
     "U+017F", "U+02BC", "U+0307", "U+039C", "U+03BC", "U+1680", "U+2000",
     "U+2001", "U+2002", "U+2003", "U+2004", "U+2005", "U+2006", "U+2007",
     "U+2008", "U+2009", "U+200A", "U+2028", "U+2029", "U+202F", "U+205F",
     "U+3000"}

\* the characters c of the alphabet with c.isspace()
Spaces ==
    {"\t", "\n", "U+000B", "\f", "\r", "U+001C", "U+001D", "U+001E", "U+001F",
     " ", "U+0085", "U+00A0", "U+1680", "U+2000", "U+2001", "U+2002",
     "U+2003", "U+2004", "U+2005", "U+2006", "U+2007", "U+2008", "U+2009",
     "U+200A", "U+2028", "U+2029", "U+202F", "U+205F", "U+3000"}

\* c.upper() for the characters of the alphabet that it changes
UpperMap ==
    "a" :> <<"A">> @@ "b" :> <<"B">> @@ "c" :> <<"C">> @@ "d" :> <<"D">> @@
    "e" :> <<"E">> @@ "f" :> <<"F">> @@ "g" :> <<"G">> @@ "h" :> <<"H">> @@
    "i" :> <<"I">> @@ "j" :> <<"J">> @@ "k" :> <<"K">> @@ "l" :> <<"L">> @@
    "m" :> <<"M">> @@ "n" :> <<"N">> @@ "o" :> <<"O">> @@ "p" :> <<"P">> @@
    "q" :> <<"Q">> @@ "r" :> <<"R">> @@ "s" :> <<"S">> @@ "t" :> <<"T">> @@
    "u" :> <<"U">> @@ "v" :> <<"V">> @@ "w" :> <<"W">> @@ "x" :> <<"X">> @@
    "y" :> <<"Y">> @@ "z" :> <<"Z">> @@ "µ" :> <<"U+039C">> @@
    "ß" :> <<"S", "S">> @@ "à" :> <<"À">> @@ "á" :> <<"Á">> @@
    "â" :> <<"Â">> @@ "ã" :> <<"Ã">> @@ "ä" :> <<"Ä">> @@ "å" :> <<"Å">> @@
    "æ" :> <<"Æ">> @@ "ç" :> <<"Ç">> @@ "è" :> <<"È">> @@ "é" :> <<"É">> @@
    "ê" :> <<"Ê">> @@ "ë" :> <<"Ë">> @@ "ì" :> <<"Ì">> @@ "í" :> <<"Í">> @@
    "î" :> <<"Î">> @@ "ï" :> <<"Ï">> @@ "ð" :> <<"Ð">> @@ "ñ" :> <<"Ñ">> @@
    "ò" :> <<"Ò">> @@ "ó" :> <<"Ó">> @@ "ô" :> <<"Ô">> @@ "õ" :> <<"Õ">> @@
    "ö" :> <<"Ö">> @@ "ø" :> <<"Ø">> @@ "ù" :> <<"Ù">> @@ "ú" :> <<"Ú">> @@
    "û" :> <<"Û">> @@ "ü" :> <<"Ü">> @@ "ý" :> <<"Ý">> @@ "þ" :> <<"Þ">> @@
    "ÿ" :> <<"U+0178">> @@ "U+0101" :> <<"U+0100">> @@
    "U+0103" :> <<"U+0102">> @@ "U+0105" :> <<"U+0104">> @@
    "U+0107" :> <<"U+0106">> @@ "U+0109" :> <<"U+0108">> @@
    "U+010B" :> <<"U+010A">> @@ "U+010D" :> <<"U+010C">> @@
    "U+010F" :> <<"U+010E">> @@ "U+0111" :> <<"U+0110">> @@
    "U+0113" :> <<"U+0112">> @@ "U+0115" :> <<"U+0114">> @@
    "U+0117" :> <<"U+0116">> @@ "U+0119" :> <<"U+0118">> @@
    "U+011B" :> <<"U+011A">> @@ "U+011D" :> <<"U+011C">> @@
    "U+011F" :> <<"U+011E">> @@ "U+0121" :> <<"U+0120">> @@
    "U+0123" :> <<"U+0122">> @@ "U+0125" :> <<"U+0124">> @@
    "U+0127" :> <<"U+0126">> @@ "U+0129" :> <<"U+0128">> @@
    "U+012B" :> <<"U+012A">> @@ "U+012D" :> <<"U+012C">> @@
    "U+012F" :> <<"U+012E">> @@ "U+0131" :> <<"I">> @@
    "U+0133" :> <<"U+0132">> @@ "U+0135" :> <<"U+0134">> @@
    "U+0137" :> <<"U+0136">> @@ "U+013A" :> <<"U+0139">> @@
    "U+013C" :> <<"U+013B">> @@ "U+013E" :> <<"U+013D">> @@
    "U+0140" :> <<"U+013F">> @@ "U+0142" :> <<"U+0141">> @@
    "U+0144" :> <<"U+0143">> @@ "U+0146" :> <<"U+0145">> @@
    "U+0148" :> <<"U+0147">> @@ "U+0149" :> <<"U+02BC", "N">> @@
    "U+014B" :> <<"U+014A">> @@ "U+014D" :> <<"U+014C">> @@
    "U+014F" :> <<"U+014E">> @@ "U+0151" :> <<"U+0150">> @@
    "U+0153" :> <<"U+0152">> @@ "U+0155" :> <<"U+0154">> @@
    "U+0157" :> <<"U+0156">> @@ "U+0159" :> <<"U+0158">> @@
    "U+015B" :> <<"U+015A">> @@ "U+015D" :> <<"U+015C">> @@
    "U+015F" :> <<"U+015E">> @@ "U+0161" :> <<"U+0160">> @@
    "U+0163" :> <<"U+0162">> @@ "U+0165" :> <<"U+0164">> @@
    "U+0167" :> <<"U+0166">> @@ "U+0169" :> <<"U+0168">> @@
    "U+016B" :> <<"U+016A">> @@ "U+016D" :> <<"U+016C">> @@
    "U+016F" :> <<"U+016E">> @@ "U+0171" :> <<"U+0170">> @@
    "U+0173" :> <<"U+0172">> @@ "U+0175" :> <<"U+0174">> @@
    "U+0177" :> <<"U+0176">> @@ "U+017A" :> <<"U+0179">> @@
    "U+017C" :> <<"U+017B">> @@ "U+017E" :> <<"U+017D">> @@
    "U+017F" :> <<"S">> @@ "U+03BC" :> <<"U+039C">>

\* c.lower() for the characters of the alphabet that it changes
LowerMap ==
    "A" :> <<"a">> @@ "B" :> <<"b">> @@ "C" :> <<"c">> @@ "D" :> <<"d">> @@
    "E" :> <<"e">> @@ "F" :> <<"f">> @@ "G" :> <<"g">> @@ "H" :> <<"h">> @@
    "I" :> <<"i">> @@ "J" :> <<"j">> @@ "K" :> <<"k">> @@ "L" :> <<"l">> @@
    "M" :> <<"m">> @@ "N" :> <<"n">> @@ "O" :> <<"o">> @@ "P" :> <<"p">> @@
    "Q" :> <<"q">> @@ "R" :> <<"r">> @@ "S" :> <<"s">> @@ "T" :> <<"t">> @@
    "U" :> <<"u">> @@ "V" :> <<"v">> @@ "W" :> <<"w">> @@ "X" :> <<"x">> @@
    "Y" :> <<"y">> @@ "Z" :> <<"z">> @@ "À" :> <<"à">> @@ "Á" :> <<"á">> @@
    "Â" :> <<"â">> @@ "Ã" :> <<"ã">> @@ "Ä" :> <<"ä">> @@ "Å" :> <<"å">> @@
    "Æ" :> <<"æ">> @@ "Ç" :> <<"ç">> @@ "È" :> <<"è">> @@ "É" :> <<"é">> @@
    "Ê" :> <<"ê">> @@ "Ë" :> <<"ë">> @@ "Ì" :> <<"ì">> @@ "Í" :> <<"í">> @@
    "Î" :> <<"î">> @@ "Ï" :> <<"ï">> @@ "Ð" :> <<"ð">> @@ "Ñ" :> <<"ñ">> @@
    "Ò" :> <<"ò">> @@ "Ó" :> <<"ó">> @@ "Ô" :> <<"ô">> @@ "Õ" :> <<"õ">> @@
    "Ö" :> <<"ö">> @@ "Ø" :> <<"ø">> @@ "Ù" :> <<"ù">> @@ "Ú" :> <<"ú">> @@
    "Û" :> <<"û">> @@ "Ü" :> <<"ü">> @@ "Ý" :> <<"ý">> @@ "Þ" :> <<"þ">> @@
    "U+0100" :> <<"U+0101">> @@ "U+0102" :> <<"U+0103">> @@
    "U+0104" :> <<"U+0105">> @@ "U+0106" :> <<"U+0107">> @@
    "U+0108" :> <<"U+0109">> @@ "U+010A" :> <<"U+010B">> @@
    "U+010C" :> <<"U+010D">> @@ "U+010E" :> <<"U+010F">> @@
    "U+0110" :> <<"U+0111">> @@ "U+0112" :> <<"U+0113">> @@
    "U+0114" :> <<"U+0115">> @@ "U+0116" :> <<"U+0117">> @@
    "U+0118" :> <<"U+0119">> @@ "U+011A" :> <<"U+011B">> @@
    "U+011C" :> <<"U+011D">> @@ "U+011E" :> <<"U+011F">> @@
    "U+0120" :> <<"U+0121">> @@ "U+0122" :> <<"U+0123">> @@
    "U+0124" :> <<"U+0125">> @@ "U+0126" :> <<"U+0127">> @@
    "U+0128" :> <<"U+0129">> @@ "U+012A" :> <<"U+012B">> @@
    "U+012C" :> <<"U+012D">> @@ "U+012E" :> <<"U+012F">> @@
    "U+0130" :> <<"i", "U+0307">> @@ "U+0132" :> <<"U+0133">> @@
    "U+0134" :> <<"U+0135">> @@ "U+0136" :> <<"U+0137">> @@
    "U+0139" :> <<"U+013A">> @@ "U+013B" :> <<"U+013C">> @@
    "U+013D" :> <<"U+013E">> @@ "U+013F" :> <<"U+0140">> @@
    "U+0141" :> <<"U+0142">> @@ "U+0143" :> <<"U+0144">> @@
    "U+0145" :> <<"U+0146">> @@ "U+0147" :> <<"U+0148">> @@
    "U+014A" :> <<"U+014B">> @@ "U+014C" :> <<"U+014D">> @@
    "U+014E" :> <<"U+014F">> @@ "U+0150" :> <<"U+0151">> @@
    "U+0152" :> <<"U+0153">> @@ "U+0154" :> <<"U+0155">> @@
    "U+0156" :> <<"U+0157">> @@ "U+0158" :> <<"U+0159">> @@
    "U+015A" :> <<"U+015B">> @@ "U+015C" :> <<"U+015D">> @@
    "U+015E" :> <<"U+015F">> @@ "U+0160" :> <<"U+0161">> @@
    "U+0162" :> <<"U+0163">> @@ "U+0164" :> <<"U+0165">> @@
    "U+0166" :> <<"U+0167">> @@ "U+0168" :> <<"U+0169">> @@
    "U+016A" :> <<"U+016B">> @@ "U+016C" :> <<"U+016D">> @@
    "U+016E" :> <<"U+016F">> @@ "U+0170" :> <<"U+0171">> @@
    "U+0172" :> <<"U+0173">> @@ "U+0174" :> <<"U+0175">> @@
    "U+0176" :> <<"U+0177">> @@ "U+0178" :> <<"ÿ">> @@
    "U+0179" :> <<"U+017A">> @@ "U+017B" :> <<"U+017C">> @@
    "U+017D" :> <<"U+017E">> @@ "U+039C" :> <<"U+03BC">>

\* c.upper() and c.lower() of one character: a string of one or more
\* characters
upper_char(c) ==
    CASE c \in DOMAIN UpperMap -> UpperMap[c]
      [] c \in Alphabet \ DOMAIN UpperMap -> <<c>>
lower_char(c) ==
    CASE c \in DOMAIN LowerMap -> LowerMap[c]
      [] c \in Alphabet \ DOMAIN LowerMap -> <<c>>

\* c.isspace()
is_space(c) ==
    CASE c \in Spaces -> TRUE
      [] c \in Alphabet \ Spaces -> FALSE

RECURSIVE lstrip(_)
lstrip(s) == IF s # <<>> /\ is_space(Head(s)) THEN lstrip(Tail(s)) ELSE s
RECURSIVE rstrip(_)
rstrip(s) == IF s # <<>> /\ is_space(s[Len(s)])
             THEN rstrip(SubSeq(s, 1, Len(s) - 1)) ELSE s

\* the strings of a sequence, joined
RECURSIVE join(_)
join(ss) == IF ss = <<>> THEN <<>> ELSE Head(ss) \o join(Tail(ss))

\* v.upper(), v.lower(), v.strip(): AttributeError unless v is a str
upper(v) ==
    IF v.t = "str" THEN JStr(join([i \in DOMAIN v.s |-> upper_char(v.s[i])])) ELSE Raise
lower(v) ==
    IF v.t = "str" THEN JStr(join([i \in DOMAIN v.s |-> lower_char(v.s[i])])) ELSE Raise
strip(v) == IF v.t = "str" THEN JStr(lstrip(rstrip(v.s))) ELSE Raise

S_PIVOT_CMD == <<"P","I","V","O","T","_","C","M","D">>
S_DEVICE_CMD == <<"D","E","V","I","C","E","_","C","M","D">>
S_MOTOR_CMD == <<"M","O","T","O","R","_","C","M","D">>
S_START_MOTOR == <<"S","T","A","R","T","_","M","O","T","O","R">>
S_pivot_ == <<"p","i","v","o","t"," ">>
S_accepted == <<" ","a","c","c","e","p","t","e","d">>
S_ok == <<" ","o","k">>
S_missing == <<"m","i","s","s","i","n","g"," ","a","c","t","i","o","n","/",
               "s","e","r","i","a","l">>
S_sim_motor_fault == <<"s","i","m"," ","m","o","t","o","r"," ","f","a","u","l","t">>
S_sim_motor_ok == <<"s","i","m"," ","m","o","t","o","r"," ","o","k">>

(* ------------------------------ JSON text ------------------------------ *)
\* json.dumps(obj): the text of a JSON document
json_dumps(obj) == [kind |-> "json", value |-> obj]
\* a payload that is no JSON document, and the empty payload
Garbage == [kind |-> "garbage", value |-> NoObj]
EmptyText == [kind |-> "empty", value |-> NoObj]
\* json.loads(text or "{}"): Raise on a parse failure
json_loads(text) ==
    CASE text.kind = "empty" -> NoObj
      [] text.kind = "garbage" -> Raise
      [] OTHER -> text.value

(* -------------------------- PivotSim.__init__ -------------------------- *)
FarmIds == {"F1"}

init_sim(a) ==
    [farm |-> a.farm_id,
     t_status |-> <<"farm", a.farm_id, "status">>,
     t_dev_status |-> <<"farm", a.farm_id, "device", "status">>,
     t_control |-> <<"farm", a.farm_id, "control">>,
     t_device |-> <<"farm", a.farm_id, "device">>,
     t_motor_ctrl |-> <<"farm", a.farm_id, "motor", "+", "control">>,
     t_ack |-> <<"farm", a.farm_id, "ack">>,
     t_err |-> <<"farm", a.farm_id, "err">>]

\* self.re_motor.match(topic): group 1 (the motor id), or NoMatch.  A level
\* never holds the separator, so NoMatch is no motor id.  The $ of the
\* pattern matches at the end and before a newline that ends the topic.
NoMatch == "/"
re_motor_match(topic) ==
    IF /\ Len(topic) = 5
       /\ topic[1] = "farm" /\ topic[2] = sim.farm /\ topic[3] = "motor"
       /\ topic[4] # "" /\ topic[5] \in {"control", "control\n"}
    THEN topic[4] ELSE NoMatch

(* --------------------------- fault injector ---------------------------- *)
Max(a, b) == IF a >= b THEN a ELSE b
Min(a, b) == IF a <= b THEN a ELSE b

\* 1.0 in tenths
One == 10

\* a drop check with the comparison turned round
maybe_drop_inverted(r) == r >= Max(0, Min(One, args.drop_rate))

\* _maybe_drop(): r is the value random.random() returns, in [0.0, 1.0)
maybe_drop(r) == r < Max(0, Min(One, args.drop_rate))

\* _sleep_latency(): the duration handed to time.sleep; j is the jitter that
\* random.uniform(0, max(0.0, random_lag)) returns
Jitters == 0 .. Max(0, args.random_lag)
sleep_latency(j) == Max(0, args.latency) + j

(* ------------------------------ the log -------------------------------- *)
\* PivotSim.publish: the call client.publish(topic, payload, qos, retain)
publish(topic, obj, qos, retain) ==
    [op |-> "publish", topic |-> topic, payload |-> json_dumps(obj),
     qos |-> qos, retain |-> retain]

Message(text) == JObj([message |-> JStr(text)])
S_Online == <<"O","n","l","i","n","e">>
S_Offline == <<"O","f","f","l","i","n","e">>
S_Running == <<"R","u","n","n","i","n","g">>

\* the retained message of the status topic at the broker: none yet
NoRetained == [kind |-> "none", value |-> NoObj]

\* the retained status message after the broker got the calls, in order
RECURSIVE retained_after(_, _)
retained_after(calls, old) ==
    IF calls = <<>> THEN old
    ELSE LET c == Head(calls)
         IN  retained_after(Tail(calls),
                 IF c.op = "publish" /\ c.topic = sim.t_status /\ c.retain
                 THEN c.payload ELSE old)

\* the will the session carries: the last will_set before the connect
registered_will(calls) ==
    LET W == {i \in DOMAIN calls : calls[i].op = "will_set"}
    IN  IF W = {} THEN NoRetained
        ELSE calls[CHOOSE i \in W : \A k \in W : k <= i].payload

\* the topic filters the calls subscribe to
subscribed(calls) == {calls[i].topic : i \in {k \in DOMAIN calls : calls[k].op = "subscribe"}}

\* a shutdown that announces Offline itself before it closes the session
shutdown_calls_offline ==
    <<publish(sim.t_status, Message(S_Offline), 1, TRUE), [op |-> "disconnect"]>>

\* the client calls of the finally block of run_forever() once loop_stop()
\* has returned
shutdown_calls == <<[op |-> "disconnect"]>>

\* connect() opening the session before it registers the will
connect_calls_will_late ==
    <<[op |-> "tls_set"],
      [op |-> "connect", keepalive |-> 30],
      [op |-> "will_set", topic |-> sim.t_status,
       payload |-> json_dumps(Message(S_Offline)), qos |-> 1, retain |-> TRUE],
      [op |-> "loop_start"]>>

\* the client calls of connect(), in program order
connect_calls ==
    <<[op |-> "will_set", topic |-> sim.t_status,
       payload |-> json_dumps(Message(S_Offline)), qos |-> 1, retain |-> TRUE],
      [op |-> "tls_set"],
      [op |-> "connect", keepalive |-> 30],
      [op |-> "loop_start"]>>

\* _on_connect subscribing before it publishes the presence messages
on_connect_calls_subscribe_first ==
    <<[op |-> "subscribe", topic |-> sim.t_control, qos |-> 0],
      [op |-> "subscribe", topic |-> sim.t_device, qos |-> 0],
      [op |-> "subscribe", topic |-> sim.t_motor_ctrl, qos |-> 0],
      publish(sim.t_status, Message(S_Online), 1, TRUE),
      publish(sim.t_dev_status, Message(S_Running), 0, FALSE)>>

\* the client calls of _on_connect when rc == 0, in program order
on_connect_calls ==
    <<publish(sim.t_status, Message(S_Online), 1, TRUE),
      publish(sim.t_dev_status, Message(S_Running), 0, FALSE),
      [op |-> "subscribe", topic |-> sim.t_control, qos |-> 0],
      [op |-> "subscribe", topic |-> sim.t_device, qos |-> 0],
      [op |-> "subscribe", topic |-> sim.t_motor_ctrl, qos |-> 0]>>

\* an _on_connect that does not look at rc
on_connect_effect_any_rc(rc) == on_connect_calls

\* _on_connect: the client calls for a CONNACK code
on_connect_effect(rc) == IF rc = 0 THEN on_connect_calls ELSE <<>>

(* --------------------------- command handlers -------------------------- *)
\* corr = d.get("corr") or ""
corr_of(d) == or_empty(get(d, "corr"))

\* f"pivot {d.get('run','').lower()} accepted"
pivot_note(d) ==
    LET run == lower(get_default(d, "run", JStr(<<>>)))
    IN  IF run = Raise THEN Raise ELSE JStr(S_pivot_ \o run.s \o S_accepted)

\* handle_pivot_cmd after the sleep: the publish call, or Raise
pivot_response(d) ==
    IF pivot_note(d) = Raise THEN Raise
    ELSE publish(sim.t_ack,
                 JObj([corr |-> corr_of(d), ok |-> JBool(TRUE), note |-> pivot_note(d)]),
                 0, FALSE)

\* a serial that is taken as sent, not stripped
device_serial_unstripped(d) ==
    IF or_empty(get(d, "serial")).t = "str" THEN or_empty(get(d, "serial")) ELSE Raise

\* action = (d.get("action") or "").upper(); serial = (d.get("serial") or "").strip()
device_action(d) == upper(or_empty(get(d, "action")))
device_serial(d) == strip(or_empty(get(d, "serial")))

\* handle_device_cmd before the drop check: does an assignment raise
device_raises(d) == device_action(d) = Raise \/ device_serial(d) = Raise

\* not action or not serial
device_invalid(d) == device_action(d).s = <<>> \/ device_serial(d).s = <<>>

\* a device handler that puts the detail of an Err under the key note
device_response_err_note(d) ==
    IF device_invalid(d)
    THEN publish(sim.t_err,
                 JObj([corr |-> corr_of(d), ok |-> JBool(FALSE), note |-> JStr(S_missing)]),
                 0, FALSE)
    ELSE publish(sim.t_ack,
                 JObj([corr |-> corr_of(d), ok |-> JBool(TRUE),
                  note |-> JStr(device_action(d).s \o S_ok)]),
                 0, FALSE)

\* handle_device_cmd after the sleep: the publish call
device_response(d) ==
    IF device_invalid(d)
    THEN publish(sim.t_err,
                 JObj([corr |-> corr_of(d), ok |-> JBool(FALSE), reason |-> JStr(S_missing)]),
                 0, FALSE)
    ELSE publish(sim.t_ack,
                 JObj([corr |-> corr_of(d), ok |-> JBool(TRUE),
                  note |-> JStr(device_action(d).s \o S_ok)]),
                 0, FALSE)

\* cmd = (d.get("command") or "").upper()
motor_cmd(d) == upper(or_empty(get(d, "command")))
motor_raises(d) == motor_cmd(d) = Raise

\* a motor handler answering on the global ack topic
motor_t_ack_global(motor_id) == sim.t_ack

\* t_ack / t_err of handle_motor_cmd
motor_t_ack(motor_id) == <<"farm", sim.farm, "motor", motor_id, "ack">>
motor_t_err(motor_id) == <<"farm", sim.farm, "motor", motor_id, "err">>

\* a fault test on the command as sent, not uppercased
motor_fault_exact(d) == args.motor_fail /\ get(d, "command") = JStr(S_START_MOTOR)

\* self.args.motor_fail and cmd == "START_MOTOR"
motor_fault(d) == args.motor_fail /\ motor_cmd(d) = JStr(S_START_MOTOR)

\* handle_motor_cmd after the sleep: the publish call
motor_response(motor_id, d) ==
    IF motor_fault(d)
    THEN publish(motor_t_err(motor_id),
                 JObj([corr |-> corr_of(d), ok |-> JBool(FALSE),
                  reason |-> JStr(S_sim_motor_fault)]),
                 0, FALSE)
    ELSE publish(motor_t_ack(motor_id),
                 JObj([corr |-> corr_of(d), ok |-> JBool(TRUE),
                  note |-> JStr(S_sim_motor_ok)]),
                 0, FALSE)

(* ------------------------------- routing ------------------------------- *)
\* a router that goes by the topic alone and ignores the type field
route_by_topic(topic, data) ==
    CASE topic = sim.t_control -> "pivot"
      [] topic = sim.t_device -> "device"
      [] OTHER -> IF re_motor_match(topic) # NoMatch THEN "motor" ELSE "none"

\* the if / elif / else of _on_message: the handler the message goes to
route(topic, data) ==
    CASE topic = sim.t_control /\ get(data, "type") = JStr(S_PIVOT_CMD) -> "pivot"
      [] topic = sim.t_device /\ get(data, "type") = JStr(S_DEVICE_CMD) -> "device"
      [] OTHER ->
           IF re_motor_match(topic) # NoMatch /\ get(data, "type") = JStr(S_MOTOR_CMD)
           THEN "motor" ELSE "none"

\* the if / elif / else of _on_message evaluates data.get("type"): the
\* right operand of an `and` whose left operand, the test of the topic, holds
reads_type(topic) ==
    \/ topic = sim.t_control
    \/ topic = sim.t_device
    \/ re_motor_match(topic) # NoMatch

\* the assignments a handler makes before its drop check raise
handler_raises(h, d) ==
    CASE h = "device" -> device_raises(d)
      [] h = "motor" -> motor_raises(d)
      [] OTHER -> FALSE

\* what a handler does after its sleep: a publish call, or Raise
handler_response(h, topic, d) ==
    CASE h = "pivot" -> pivot_response(d)
      [] h = "device" -> device_response(d)
      [] OTHER -> motor_response(re_motor_match(topic), d)

(* ------------------------------- inputs -------------------------------- *)
\* --drop-rate, --latency and --random-lag values, --motor-fail
DropRates == {0, 5, 10, 15}
Latencies == {1}
RandomLags == {0}
\* values of random.random(), in tenths: always below 1.0
RandomVals == {0, 5, 9}
\* rc of a CONNACK: 0 accepted, 5 not authorised
ConnackCodes == {0, 5}

\* the command lines: every drop rate without --motor-fail, and --motor-fail
\* with no drops
Args ==
    {a \in [farm_id : FarmIds, drop_rate : DropRates, motor_fail : BOOLEAN,
            latency : Latencies, random_lag : RandomLags] :
        a.motor_fail => a.drop_rate = 0}

\* an object with the keys of f whose value is not Absent
MkObj(f) == JObj([k \in {x \in DOMAIN f : f[x] # Absent} |-> f[k]])

S_c1 == <<"c","1">>
S_START == <<"S","T","A","R","T">>
S_open == <<"o","p","e","n">>
S_s1 == <<"s","1">>
CorrVals == {Absent, JStr(S_c1), JInt(0), JInt(7), JNull}
RunVals == {Absent, JStr(S_START), JInt(5), JNull}
ActionVals == {Absent, JStr(S_open), JInt(5)}
SerialVals == {Absent, JStr(<<>>), JStr(<<" ">>), JStr(<<"\f">>), JStr(S_s1), JInt(5)}
CommandVals == {Absent, JStr(S_START_MOTOR),
                JStr(<<"s","t","a","r","t","_","m","o","t","o","r">>),
                JStr(<<"U+017F","t","a","r","t","_","m","o","t","o","r">>),
                JStr(<<"S","T","O","P">>), JInt(5)}

\* PIVOT_CMD objects: every corr value, and every run value
PivotObjs ==
    {MkObj([type |-> JStr(S_PIVOT_CMD), corr |-> c, run |-> JStr(S_START)]) :
        c \in CorrVals}
    \cup {MkObj([type |-> JStr(S_PIVOT_CMD), corr |-> JStr(S_c1), run |-> r]) :
        r \in RunVals}
\* DEVICE_CMD objects: every action and serial value, and a falsy corr
DeviceObjs ==
    {MkObj([type |-> JStr(S_DEVICE_CMD), corr |-> JStr(S_c1), action |-> a,
            serial |-> x]) : a \in ActionVals, x \in SerialVals}
    \cup {MkObj([type |-> JStr(S_DEVICE_CMD), corr |-> JBool(FALSE), action |-> a,
                 serial |-> JStr(S_s1)]) : a \in {Absent, JStr(S_open)}}
\* MOTOR_CMD objects: every command value, a non-string corr, and a payload
\* that names a motor itself
MotorObjs ==
    {MkObj([type |-> JStr(S_MOTOR_CMD), corr |-> JStr(S_c1), command |-> m]) :
        m \in CommandVals}
    \cup {JObj([type |-> JStr(S_MOTOR_CMD), corr |-> JInt(7),
                command |-> JStr(S_START_MOTOR)]),
          JObj([type |-> JStr(S_MOTOR_CMD), corr |-> JStr(S_c1),
                command |-> JStr(S_START_MOTOR), motor |-> JStr(<<"M","2">>)])}

ControlTopics == {<<"farm", f, "control">> : f \in FarmIds}
DeviceTopics == {<<"farm", f, "device">> : f \in FarmIds}
MotorTopics == {<<"farm", f, "motor", m, "control">> : f \in FarmIds, m \in {"M1"}}
\* topics a broker can deliver under the three subscriptions
Topics == ControlTopics \cup DeviceTopics \cup MotorTopics

\* payloads sent to every topic: one command of each type, an object
\* without type, a JSON document that is no object, a text that is no JSON,
\* the empty text
AnyTopicPayloads ==
    {json_dumps(JObj([type |-> JStr(S_PIVOT_CMD), corr |-> JStr(S_c1),
                 run |-> JStr(S_START)])),
     json_dumps(JObj([type |-> JStr(S_DEVICE_CMD), corr |-> JStr(S_c1),
                 action |-> JStr(S_open), serial |-> JStr(S_s1)])),
     json_dumps(JObj([type |-> JStr(S_MOTOR_CMD), corr |-> JStr(S_c1),
                 command |-> JStr(S_START_MOTOR)])),
     json_dumps(JObj([corr |-> JStr(S_c1)])), json_dumps(JInt(5)), Garbage, EmptyText}

\* the filter farm/<F>/motor/+/control also matches an empty motor level
EmptyMotorTopics == {<<"farm", f, "motor", "", "control">> : f \in FarmIds}

\* the inbound messages: <<topic, payload>>
Inbound ==
    {<<t, json_dumps(o)>> : t \in ControlTopics, o \in PivotObjs}
    \cup {<<t, json_dumps(o)>> : t \in DeviceTopics, o \in DeviceObjs}
    \cup {<<t, json_dumps(o)>> : t \in MotorTopics, o \in MotorObjs}
    \cup {<<t, p>> : t \in Topics \cup EmptyMotorTopics, p \in AnyTopicPayloads}

\* the commands that are sent again and again: a command of each type, a
\* command with a falsy corr and a command with a run that is no string
ReplayInbound ==
    {<<t, json_dumps(JObj([type |-> JStr(S_PIVOT_CMD), corr |-> c, run |-> r]))>> :
        t \in ControlTopics,
        c \in {JStr(S_c1), JInt(0)}, r \in {JStr(S_START), JInt(5)}}
    \cup {<<t, json_dumps(JObj([type |-> JStr(S_DEVICE_CMD), corr |-> JStr(S_c1),
                           action |-> JStr(S_open), serial |-> JStr(S_s1)]))>> :
        t \in DeviceTopics}
    \cup {<<t, json_dumps(JObj([type |-> JStr(S_MOTOR_CMD), corr |-> JStr(S_c1),
                           command |-> JStr(S_START_MOTOR)]))>> :
        t \in MotorTopics}

\* MQTT topic filter matching: "+" matches one level
topic_matches(filter, topic) ==
    /\ Len(filter) = Len(topic)
    /\ \A i \in DOMAIN filter : filter[i] = "+" \/ filter[i] = topic[i]

(* -------------------------------- state -------------------------------- *)
\* cur: the inbound message the loop thread took last
\* (msg and the locals of the callback), while the callback has not returned:
\* handler is the handler it was routed to, dropped the result of
\* _maybe_drop, secs the duration of the sleep (-1: no sleep), raised whether
\* the callback raised, start the length of the log when it arrived
NoMsg == [id |-> 0, topic |-> <<>>, payload |-> EmptyText, handler |-> "none",
          dropped |-> FALSE, secs |-> -1, raised |-> FALSE, start |-> 0]

Init ==
    /\ args \in Args
    /\ sim = init_sim(args)
    /\ main_pc = "new"
    /\ conn = "none"
    /\ subs = {}
    /\ loop_pc = "idle"
    /\ cur = NoMsg
    /\ log = <<>>
    /\ nmsgs = 0
    /\ nconn = 0
    /\ status = NoRetained
    /\ seen = <<>>
    /\ todo = <<>>

(* ----------------------------- main thread ----------------------------- *)
\* connect(): will_set, TLS, client.connect, loop_start.  An exception or a
\* KeyboardInterrupt in connect() is caught nowhere and ends the process
\* after the client calls made so far: none (before will_set), one
\* (ssl.create_default_context() raises), two (tls_set_context raises),
\* three (client.connect raises) or all four (loop_start raises).
connect ==
    /\ main_pc = "new"
    /\ \E made \in 0 .. Len(connect_calls), raised \in BOOLEAN :
         /\ made < Len(connect_calls) => raised
         /\ log' = log \o SubSeq(connect_calls, 1, made)
         /\ IF raised
            THEN /\ main_pc' = "aborted"
                 /\ UNCHANGED <<conn, nconn>>
            ELSE /\ main_pc' = "running"
                 /\ conn' = "connecting"
                 /\ nconn' = 1
    /\ UNCHANGED <<args, sim, subs, loop_pc, cur, nmsgs, status, seen, todo>>

\* the main thread and the loop thread both run
threads_run == main_pc \in {"running", "stopping"}

\* run_forever(): a KeyboardInterrupt in the try block ends the sleep loop;
\* the finally block calls loop_stop(), which waits for the loop thread
keyboard_interrupt ==
    /\ main_pc = "running"
    /\ main_pc' = "stopping"
    /\ log' = Append(log, [op |-> "loop_stop"])
    /\ UNCHANGED <<args, sim, conn, subs, loop_pc, cur, nmsgs, nconn, status, seen, todo>>

\* the process ends without client.disconnect(): the loop thread ends with
\* it, and the broker finds the session lost and publishes its will
process_ends ==
    /\ main_pc' = "aborted"
    /\ loop_pc' = IF loop_pc = "dead" THEN "dead" ELSE "exited"
    /\ conn' = IF conn = "up" THEN "down" ELSE conn
    /\ status' = IF conn = "up" THEN registered_will(log) ELSE status
    /\ subs' = {}
    /\ UNCHANGED <<args, sim, cur, log, nmsgs, nconn, seen, todo>>

\* a KeyboardInterrupt that run_forever() does not catch: it comes before
\* the try block is entered, or, after a first one, in the finally block
\* before client.loop_stop() is called ("except Exception" lets it pass).
\* It leaves main() with neither loop_stop() nor disconnect() called.
keyboard_interrupt_uncaught ==
    /\ main_pc = "running"
    /\ process_ends

\* run_forever(): loop_stop() does not return: it raises, or a second
\* KeyboardInterrupt ends the wait for the loop thread.  client.disconnect()
\* is skipped and the process ends.
loop_stop_raises ==
    /\ main_pc = "stopping"
    /\ process_ends

\* run_forever(): loop_stop() returned (the loop thread has ended, or had
\* died), client.disconnect().  The broker discards the will of a session
\* that is closed with DISCONNECT.
disconnect ==
    /\ main_pc = "stopping"
    /\ loop_pc \in {"exited", "dead"}
    /\ main_pc' = "stopped"
    /\ log' = log \o shutdown_calls
    /\ status' = retained_after(shutdown_calls, status)
    /\ conn' = "closed"
    /\ subs' = {}
    /\ UNCHANGED <<args, sim, loop_pc, cur, nmsgs, nconn, seen, todo>>

(* ----------------------------- loop thread ----------------------------- *)
\* the loop thread ends: loop_stop() has set the flag, the thread is in no
\* callback and nothing is left to send.  Until then it goes on taking what
\* the broker delivers: a publish or subscribe made in a callback is still
\* unsent when the callback returns, so the thread runs on after it.
loop_thread_exits ==
    /\ main_pc = "stopping"
    /\ loop_pc = "idle"
    /\ loop_pc' = "exited"
    /\ UNCHANGED <<args, sim, main_pc, conn, subs, cur, log, nmsgs, nconn, status,
                   seen, todo>>

\* the loop thread reads the CONNACK and calls
\* _on_connect(client, userdata, flags, rc): todo holds the client calls the
\* callback has yet to make.  With rc # 0 it makes none and returns.
on_connect ==
    /\ threads_run
    /\ loop_pc = "idle"
    /\ conn = "connecting"
    /\ \E rc \in ConnackCodes :
         /\ log' = Append(log, [op |-> "on_connect", rc |-> rc])
         /\ todo' = on_connect_effect(rc)
         /\ conn' = IF rc = 0 THEN "up" ELSE "down"
         /\ loop_pc' = IF on_connect_effect(rc) = <<>> THEN "idle"
                       ELSE "in_on_connect"
    /\ UNCHANGED <<args, sim, main_pc, subs, cur, nmsgs, nconn, status, seen>>

\* _on_connect makes its next client call; after the last one it returns
on_connect_next_call ==
    /\ threads_run
    /\ loop_pc = "in_on_connect"
    /\ log' = Append(log, Head(todo))
    /\ status' = retained_after(<<Head(todo)>>, status)
    /\ subs' = subs \cup subscribed(<<Head(todo)>>)
    /\ todo' = Tail(todo)
    /\ loop_pc' = IF Tail(todo) = <<>> THEN "idle" ELSE "in_on_connect"
    /\ UNCHANGED <<args, sim, main_pc, conn, cur, nmsgs, nconn, seen>>

\* _on_disconnect(client, userdata, rc): the session is lost; with
\* clean_session the broker forgets the subscriptions, and it publishes the
\* will the session registered
on_disconnect ==
    /\ threads_run
    /\ loop_pc = "idle"
    /\ conn = "up"
    /\ conn' = "down"
    /\ subs' = {}
    /\ status' = registered_will(log)
    /\ loop_pc' = "idle"
    /\ UNCHANGED <<args, sim, main_pc, cur, log, nmsgs, nconn, seen, todo>>

\* a callback raised and ended the loop thread: no PINGREQ is sent any more,
\* the broker closes the session when keepalive=30 has run out and
\* publishes the will
keepalive_expires ==
    /\ loop_pc = "dead"
    /\ conn = "up"
    /\ conn' = "down"
    /\ subs' = {}
    /\ status' = registered_will(log)
    /\ UNCHANGED <<args, sim, main_pc, loop_pc, cur, log, nmsgs, nconn, seen, todo>>

\* the loop thread of loop_start() opens the session again
reconnect ==
    /\ main_pc = "running"
    /\ loop_pc = "idle"
    /\ conn = "down"
    /\ nconn < MaxConnects
    /\ conn' = "connecting"
    /\ nconn' = nconn + 1
    /\ UNCHANGED <<args, sim, main_pc, subs, loop_pc, cur, log, nmsgs, status, seen, todo>>

\* a handler that sleeps before it checks the drop
drop_outcome_slept(m, h) ==
    [m EXCEPT !.handler = h, !.dropped = TRUE, !.secs = sleep_latency(0)]

\* the callback state of a command that _maybe_drop drops: no sleep
drop_outcome(m, h) == [m EXCEPT !.handler = h, !.dropped = TRUE]

\* _on_message(client, userdata, msg) up to the point where the handler it
\* calls returns, raises or starts to sleep.  r is the value of
\* random.random() in _maybe_drop, j the jitter in _sleep_latency.
on_message_of(msg, r, j) ==
    LET topic == msg[1]
        payload == msg[2]
        data == json_loads(payload)
        m == [id |-> nmsgs + 1, topic |-> topic, payload |-> payload,
              handler |-> "none", dropped |-> FALSE, secs |-> -1,
              raised |-> FALSE, start |-> Len(log)]
    IN  CASE data = Raise ->
               \* Non-JSON payload, ignoring
               /\ cur' = m
               /\ loop_pc' = "returning"
          [] data # Raise /\ ~IsObj(data) /\ reads_type(topic) ->
               \* data.get raises AttributeError
               /\ cur' = [m EXCEPT !.raised = TRUE]
               /\ loop_pc' = "dead"
          [] data # Raise /\ ~IsObj(data) /\ ~reads_type(topic) ->
               \* no condition gets as far as data.get
               /\ cur' = m
               /\ loop_pc' = "returning"
          [] OTHER ->
               LET h == route(topic, data) IN
               CASE h = "none" ->
                      /\ cur' = m
                      /\ loop_pc' = "returning"
                 [] h # "none" /\ handler_raises(h, data) ->
                      /\ cur' = [m EXCEPT !.handler = h, !.raised = TRUE]
                      /\ loop_pc' = "dead"
                 [] h # "none" /\ ~handler_raises(h, data) /\ maybe_drop(r) ->
                      /\ cur' = drop_outcome(m, h)
                      /\ loop_pc' = "returning"
                 [] OTHER ->
                      /\ cur' = [m EXCEPT !.handler = h,
                                           !.secs = sleep_latency(j)]
                      /\ loop_pc' = "sleeping"

\* a loop that takes the next message while a handler sleeps
loop_free_while_sleeping == loop_pc \in {"idle", "sleeping"}

\* the loop thread is between callbacks: it takes the next message from the
\* socket only then
loop_free == loop_pc = "idle"

\* the loop thread reads a PUBLISH from the socket and calls _on_message
on_message ==
    /\ threads_run
    /\ loop_free
    /\ conn = "up"
    /\ nmsgs < MaxMsgs
    /\ \E msg \in Inbound, r \in RandomVals, j \in Jitters :
         /\ \E f \in subs : topic_matches(f, msg[1])
         /\ on_message_of(msg, r, j)
    /\ nmsgs' = nmsgs + 1
    /\ UNCHANGED <<args, sim, main_pc, conn, subs, nconn, log, status, seen, todo>>

\* the same, the messages being taken from ReplayInbound and kept in seen
on_message_replay ==
    /\ threads_run
    /\ loop_free
    /\ conn = "up"
    /\ nmsgs < MaxMsgs
    /\ \E msg \in ReplayInbound, r \in RandomVals, j \in Jitters :
         /\ \E f \in subs : topic_matches(f, msg[1])
         /\ on_message_of(msg, r, j)
         /\ seen' = Append(seen, msg)
    /\ nmsgs' = nmsgs + 1
    /\ UNCHANGED <<args, sim, main_pc, conn, subs, nconn, log, status, todo>>

\* a motor handler that keeps its ack topic in self.t_ack
sleep_returns_sets_t_ack ==
    /\ loop_pc = "sleeping"
    /\ LET resp == handler_response(cur.handler, cur.topic, json_loads(cur.payload))
       IN  IF resp = Raise
           THEN /\ cur' = [cur EXCEPT !.raised = TRUE]
                /\ loop_pc' = "dead"
                /\ UNCHANGED <<log, sim>>
           ELSE /\ log' = Append(log, resp)
                /\ loop_pc' = "returning"
                /\ sim' = IF cur.handler = "motor"
                          THEN [sim EXCEPT !.t_ack = motor_t_ack(re_motor_match(cur.topic))]
                          ELSE sim
                /\ UNCHANGED cur
    /\ UNCHANGED <<args, main_pc, conn, subs, nmsgs, nconn, status, seen, todo>>

\* time.sleep returns in the handler: the rest of the handler, then
\* _on_message returns
sleep_returns ==
    /\ loop_pc = "sleeping"
    /\ LET resp == handler_response(cur.handler, cur.topic, json_loads(cur.payload))
       IN  IF resp = Raise
           THEN /\ cur' = [cur EXCEPT !.raised = TRUE]
                /\ loop_pc' = "dead"
                /\ UNCHANGED log
           ELSE /\ log' = Append(log, resp)
                /\ loop_pc' = "returning"
                /\ UNCHANGED cur
    /\ UNCHANGED <<args, sim, main_pc, conn, subs, nmsgs, nconn, status, seen, todo>>

\* _on_message returns to the loop: msg and the locals are gone
on_message_returns ==
    /\ loop_pc = "returning"
    /\ loop_pc' = "idle"
    /\ cur' = NoMsg
    /\ UNCHANGED <<args, sim, main_pc, conn, subs, log, nmsgs, nconn, status, seen, todo>>

Next ==
    \/ connect
    \/ keyboard_interrupt
    \/ keyboard_interrupt_uncaught
    \/ loop_stop_raises
    \/ disconnect
    \/ loop_thread_exits
    \/ on_connect
    \/ on_connect_next_call
    \/ on_disconnect
    \/ keepalive_expires
    \/ reconnect
    \/ on_message
    \/ sleep_returns
    \/ on_message_returns

Spec == Init /\ [][Next]_vars

\* the same program, fed with the replayed commands
NextReplay ==
    \/ connect
    \/ keyboard_interrupt
    \/ keyboard_interrupt_uncaught
    \/ loop_stop_raises
    \/ disconnect
    \/ loop_thread_exits
    \/ on_connect
    \/ on_connect_next_call
    \/ on_disconnect
    \/ keepalive_expires
    \/ reconnect
    \/ on_message_replay
    \/ sleep_returns
    \/ on_message_returns

SpecReplay == Init /\ [][NextReplay]_vars

\* the loop thread and the main thread keep running: a sleep returns, a
\* callback goes on to its end, the loop thread ends once loop_stop() has
\* told it to, and the main thread then goes on to client.disconnect()
FairSpec ==
    Spec /\ WF_vars(sleep_returns) /\ WF_vars(on_message_returns)
         /\ WF_vars(on_connect_next_call) /\ WF_vars(loop_thread_exits)
         /\ WF_vars(disconnect)

TypeOK ==
    /\ main_pc \in {"new", "running", "stopping", "stopped", "aborted"}
    /\ loop_pc \in {"idle", "in_on_connect", "sleeping", "returning", "exited", "dead"}
    /\ (loop_pc = "in_on_connect" => todo # <<>>)
    /\ conn \in {"none", "connecting", "up", "down", "closed"}
    /\ nmsgs \in 0 .. MaxMsgs
    /\ nconn \in 0 .. MaxConnects

(* ------------------------------ properties ----------------------------- *)
\* the callback of the message in cur has ended: returned or raised
Ended == cur.id > 0 /\ loop_pc \in {"returning", "dead"}
\* the message in cur went to a handler
Routed == cur.id > 0 /\ cur.handler # "none"
\* the members of the payload of the message in cur: none unless the
\* payload is a JSON object
Data ==
    IF IsObj(json_loads(cur.payload)) THEN json_loads(cur.payload).o ELSE NoObj.o
\* a member of the payload, JNull when it has none of that name
Field(k) == IF k \in DOMAIN Data THEN Data[k] ELSE JNull
\* the publish calls made for the message in cur
Resp == {i \in (cur.start + 1) .. Len(log) : log[i].op = "publish"}
\* the members of the object a publish call carries
Sent(i) == json_loads(log[i].payload).o
IsAck(i, topic, note) ==
    /\ log[i].topic = topic
    /\ DOMAIN Sent(i) = {"corr", "ok", "note"}
    /\ Sent(i).ok = JBool(TRUE)
    /\ Sent(i).note = JStr(note)
IsErr(i, topic, reason) ==
    /\ log[i].topic = topic
    /\ DOMAIN Sent(i) = {"corr", "ok", "reason"}
    /\ Sent(i).ok = JBool(FALSE)
    /\ Sent(i).reason = JStr(reason)
\* a field of the payload is empty or absent
EmptyOrAbsent(k) == k \notin DOMAIN Data \/ Data[k] = JStr(<<>>)
IsAckOrErrTopic(topic) == topic[Len(topic)] \in {"ack", "err"}

\* C1: every inbound message routed to a handler gets exactly one Ack-or-Err
\* publish when the drop decision is false and none when it is true, whatever
\* the payload holds.  (Fails: a handler raises on a non-string field.)
C1_OnePublishUnlessDropped ==
    (Ended /\ Routed) =>
        Cardinality(Resp) = (IF cur.dropped THEN 0 ELSE 1)

\* C2: the corr of every published Ack or Err is identical to the corr the
\* inbound command carries, also for falsy and non-string values.
\* (Fails: a falsy corr such as 0, false or null is published as "".)
C2_CorrIdentical ==
    (Routed /\ "corr" \in DOMAIN Data) =>
        \A i \in Resp : Sent(i).corr = Data.corr

\* C3: a PIVOT_CMD on farm/<F>/control, drop disabled, gets exactly one
\* publish: an Ack on farm/<F>/ack with note "pivot <run lowercased>
\* accepted".  (Fails: run present and not a string raises.)
C3_PivotAlwaysAcked ==
    (Ended /\ cur.handler = "pivot" /\ args.drop_rate <= 0) =>
        /\ Cardinality(Resp) = 1
        /\ \A i \in Resp :
             IsAck(i, <<"farm", args.farm_id, "ack">>,
                   S_pivot_ \o lower(IF "run" \in DOMAIN Data THEN Data.run ELSE JStr(<<>>)).s
                            \o S_accepted)

\* C4: a non-dropped DEVICE_CMD whose action or serial is empty or absent
\* gets exactly one publish: an Err on farm/<F>/err with reason "missing
\* action/serial".  (Fails: the other field not a string raises.)
C4_DeviceMissingFieldErr ==
    (Ended /\ cur.handler = "device" /\ ~cur.dropped
       /\ (EmptyOrAbsent("action") \/ EmptyOrAbsent("serial"))) =>
        /\ Cardinality(Resp) = 1
        /\ \A i \in Resp : IsErr(i, <<"farm", args.farm_id, "err">>, S_missing)

\* the topics of the motor the message in cur was sent to
CurMotorAck == <<"farm", args.farm_id, "motor", cur.topic[4], "ack">>
CurMotorErr == <<"farm", args.farm_id, "motor", cur.topic[4], "err">>

\* C5, as stated: the response to a MOTOR_CMD is the Err "sim motor fault"
\* only if the toggle is on and command is exactly "START_MOTOR"; for every
\* other command value, "start_motor" included, it is the Ack "sim motor ok".
C5_FaultOnlyForExactCommand ==
    (Ended /\ cur.handler = "motor") =>
        \A i \in Resp :
            IF args.motor_fail /\ Field("command") = JStr(S_START_MOTOR)
            THEN IsErr(i, CurMotorErr, S_sim_motor_fault)
            ELSE IsAck(i, CurMotorAck, S_sim_motor_ok)

\* C5, amended: a MOTOR_CMD gets at most one response; it is the Err "sim
\* motor fault" exactly when the toggle is on and command, uppercased, is
\* "START_MOTOR" ("start_motor" faults too), and the Ack "sim motor ok" in
\* every other case.
C5_FaultForUppercasedCommand ==
    (Ended /\ cur.handler = "motor") =>
        /\ Cardinality(Resp) <= 1
        /\ \A i \in Resp :
            IF args.motor_fail /\ upper(Field("command")) = JStr(S_START_MOTOR)
            THEN IsErr(i, CurMotorErr, S_sim_motor_fault)
            ELSE IsAck(i, CurMotorAck, S_sim_motor_ok)

\* a lower-case start_motor, toggle on, answered with the Err
C5_Witness ==
    /\ Ended /\ cur.handler = "motor" /\ args.motor_fail
    /\ Field("command") = JStr(<<"s","t","a","r","t","_","m","o","t","o","r">>)
    /\ \E i \in Resp : IsErr(i, CurMotorErr, S_sim_motor_fault)

\* C6: every response to a MOTOR_CMD received on farm/<F>/motor/<M>/control
\* is published on farm/<F>/motor/<M>/ack or .../err with the <M> of the
\* inbound topic: not the payload's, not another motor's, not farm/<F>/ack.
C6_MotorResponseTopic ==
    (cur.id > 0 /\ cur.handler = "motor") =>
        \A i \in Resp : log[i].topic \in {CurMotorAck, CurMotorErr}

\* a command sent to motor M1 whose payload names M2, answered
C6_Witness ==
    /\ Ended /\ cur.handler = "motor" /\ cur.topic[4] = "M1"
    /\ "motor" \in DOMAIN Data /\ Data.motor = JStr(<<"M","2">>)
    /\ Resp # {}

\* C7: with a drop probability of 1.0 or more (clamped to 1), no sequence of
\* inbound commands causes a publish to an ack or err topic.
C7_DropAllPublishesNothing ==
    args.drop_rate >= One =>
        \A i \in DOMAIN log :
            log[i].op = "publish" => ~IsAckOrErrTopic(log[i].topic)

\* drop rate above 1.0, the second routed command has been dropped
C7_Witness ==
    /\ args.drop_rate > One
    /\ Ended /\ Routed /\ cur.dropped /\ cur.id >= 2

\* C8: with a drop probability of 0.0 every inbound Pivot, Device or Motor
\* command is eventually followed by a published response, unless the
\* process is ended first.  (Fails: a handler that raises publishes nothing.)
C8_EveryCommandAnswered ==
    \A n \in 1 .. MaxMsgs :
        (args.drop_rate = 0 /\ cur.id = n /\ Routed)
            ~> ((cur.id = n /\ Resp # {}) \/ main_pc = "aborted")

\* C9: every successful connection (rc == 0) publishes Online retained at
\* QoS 1 to farm/<F>/status, then Running non-retained at QoS 0 to
\* farm/<F>/device/status, then subscribes to the three topics; no
\* subscription precedes the two presence messages.
C9_PresenceBeforeSubscriptions ==
    LET expected ==
            <<[op |-> "publish", topic |-> <<"farm", args.farm_id, "status">>,
               payload |-> json_dumps(Message(S_Online)), qos |-> 1, retain |-> TRUE],
              [op |-> "publish", topic |-> <<"farm", args.farm_id, "device", "status">>,
               payload |-> json_dumps(Message(S_Running)), qos |-> 0, retain |-> FALSE],
              [op |-> "subscribe", topic |-> <<"farm", args.farm_id, "control">>,
               qos |-> 0],
              [op |-> "subscribe", topic |-> <<"farm", args.farm_id, "device">>,
               qos |-> 0],
              [op |-> "subscribe",
               topic |-> <<"farm", args.farm_id, "motor", "+", "control">>, qos |-> 0]>>
        \* the entries of the loop thread: the calls of _on_connect and what
        \* it and the handlers publish and subscribe, without the calls of
        \* the main thread that fall between them
        own == SelectSeq(log, LAMBDA e : e.op \in {"on_connect", "publish", "subscribe"})
        accepted(j) == own[j].op = "on_connect" /\ own[j].rc = 0
        \* _on_connect of entry j has not returned yet
        running(j) ==
            /\ loop_pc = "in_on_connect"
            /\ \A k \in (j + 1) .. Len(own) : own[k].op # "on_connect"
    IN  /\ \A j \in DOMAIN own :
             accepted(j) =>
                /\ \A n \in 1 .. 5 : j + n <= Len(own) => own[j + n] = expected[n]
                /\ (~running(j) /\ main_pc # "aborted") => j + 5 <= Len(own)
        /\ \A j \in DOMAIN own :
             own[j].op = "subscribe" =>
                \E n \in 3 .. 5 :
                    /\ j - n >= 1 /\ accepted(j - n)
                    /\ own[j] = expected[n]
                    /\ own[j - n + 1] = expected[1]
                    /\ own[j - n + 2] = expected[2]

\* the session was lost and opened again: two successful connections, and
\* loop_stop() was called while the second _on_connect was making its calls
C9_Witness ==
    /\ conn = "up" /\ nconn = 2
    /\ Cardinality({i \in DOMAIN log : log[i].op = "subscribe"}) >= 6
    /\ \E i \in DOMAIN log :
         /\ log[i].op = "loop_stop"
         /\ log[i - 1].op = "publish" /\ log[i + 1].op = "publish"

\* C10: the last will ({"message":"Offline"}, retained, QoS 1, topic
\* farm/<F>/status) is registered before the session is opened: no connect
\* call without an earlier will_set call.
C10_WillBeforeConnect ==
    \A i \in DOMAIN log :
        log[i].op = "connect" =>
            \E j \in 1 .. (i - 1) :
                log[j] = [op |-> "will_set",
                          topic |-> <<"farm", args.farm_id, "status">>,
                          payload |-> json_dumps(Message(S_Offline)),
                          qos |-> 1, retain |-> TRUE]

\* the connect call has been made
C10_Witness == \E i \in DOMAIN log : log[i].op = "connect"

\* the publish calls in a sequence of calls
Publishes(calls) == {i \in DOMAIN calls : calls[i].op = "publish"}
OfflineText == json_dumps(Message(S_Offline))
OnlineText == json_dumps(Message(S_Online))

\* C11, as stated: the device never publishes Offline; the retained status
\* becomes Offline only when the broker delivers the registered will of a
\* lost session; and once the shutdown has begun (loop_stop() is called) the
\* device publishes no further message.
C11_NoPublishOnceShutdownBegan ==
    /\ \A i \in Publishes(log) : json_loads(log[i].payload) # Message(S_Offline)
    /\ \A i \in DOMAIN log :
         log[i].op = "loop_stop" => \A k \in Publishes(log) : k < i

\* C11, amended: the device never publishes Offline, also not during or
\* after a shutdown; the retained status becomes Offline only when the broker
\* delivers the registered will of a lost session; the shutdown steps of the
\* main thread publish nothing and nothing is published once the session is
\* closed.  (Callbacks of the loop thread may still publish while loop_stop()
\* waits for the thread.)
C11_OfflineOnlyByWill ==
    /\ [](\A i \in Publishes(log) : json_loads(log[i].payload) # Message(S_Offline))
    /\ [][(status' = OfflineText /\ status # OfflineText) =>
            (conn = "up" /\ conn' = "down" /\ log' = log
               /\ status' = registered_will(log))]_vars
    /\ [][(main_pc' # main_pc /\ main_pc # "new") =>
            Cardinality(Publishes(log')) = Cardinality(Publishes(log))]_vars
    /\ [][main_pc = "stopped" => log' = log]_vars

\* a shutdown during a command: the response was published after loop_stop()
\* was called, the session is closed and the retained status is still Online
C11_Witness ==
    /\ main_pc = "stopped"
    /\ log[Len(log)].op = "disconnect"
    /\ status = OnlineText
    /\ \E i \in DOMAIN log, k \in Publishes(log) :
         log[i].op = "loop_stop" /\ i < k /\ IsAckOrErrTopic(log[k].topic)

\* the handler of a valid (topic, type) pair, "none" for every other message
ValidHandler ==
    LET type == Field("type")
        t == cur.topic
    IN  CASE t = <<"farm", args.farm_id, "control">> /\ type = JStr(S_PIVOT_CMD)
               -> "pivot"
          [] t = <<"farm", args.farm_id, "device">> /\ type = JStr(S_DEVICE_CMD)
               -> "device"
          [] /\ Len(t) = 5 /\ SubSeq(t, 1, 3) = <<"farm", args.farm_id, "motor">>
             /\ t[4] # "" /\ t[5] = "control" /\ type = JStr(S_MOTOR_CMD)
               -> "motor"
          [] OTHER -> "none"

\* C12: an inbound message whose payload does not parse, or whose (topic,
\* type) pair is none of farm/<F>/control + PIVOT_CMD, farm/<F>/device +
\* DEVICE_CMD, farm/<F>/motor/<M>/control + MOTOR_CMD, invokes no handler and
\* causes no publish; a message that matches invokes the one handler of its
\* pair.
C12_RoutingByTopicAndType ==
    cur.id > 0 =>
        /\ cur.handler = ValidHandler
        /\ (ValidHandler = "none" => Resp = {})

\* a PIVOT_CMD payload on the device topic has been discarded
C12_Witness ==
    /\ Ended /\ cur.handler = "none" /\ ~cur.raised
    /\ cur.topic = <<"farm", args.farm_id, "device">>
    /\ Field("type") = JStr(S_PIVOT_CMD)
    /\ Resp = {}

\* C13: no inbound message is fatal: whatever is delivered, message
\* processing never ends in an error state.
\* (Fails: a payload that is no object, or a non-string field, raises
\* AttributeError in the callback and ends the loop thread.)
C13_NoMessageIsFatal == loop_pc # "dead" /\ ~cur.raised

\* the Ack and Err publishes, in the order of the calls
AckErrs == SelectSeq(log, LAMBDA e : e.op = "publish" /\ IsAckOrErrTopic(e.topic))

\* C14: no deduplication: with drop disabled, the commands delivered so far
\* have one publish each, in order, carrying the corr of its command, and two
\* deliveries of the same command have the same response, as long as the
\* process is not ended.
\* (Fails: a command that raises gets no publish, a falsy corr is not echoed.)
C14_NoDeduplication ==
    (args.drop_rate <= 0 /\ loop_pc # "sleeping" /\ main_pc # "aborted") =>
        /\ Len(AckErrs) = Len(seen)
        /\ \A i \in DOMAIN seen :
             json_loads(AckErrs[i].payload).o.corr = json_loads(seen[i][2]).o.corr
        /\ \A i, k \in DOMAIN seen : seen[i] = seen[k] => AckErrs[i] = AckErrs[k]

\* the characters of a field of the payload, <<>> unless it is a string
Chars(k) == IF k \in DOMAIN Data /\ Data[k].t = "str" THEN Data[k].s ELSE <<>>
GlobalAck == <<"farm", args.farm_id, "ack">>
GlobalErr == <<"farm", args.farm_id, "err">>

\* C15, as stated: a non-dropped DEVICE_CMD whose action and serial are both
\* non-empty strings, a serial of white space included, gets exactly one
\* publish: the Ack "<action uppercased> ok" on farm/<F>/ack.
C15_AckForNonEmptyFields ==
    (Ended /\ cur.handler = "device" /\ ~cur.dropped
       /\ Chars("action") # <<>> /\ Chars("serial") # <<>>) =>
        /\ Cardinality(Resp) = 1
        /\ \A i \in Resp : IsAck(i, GlobalAck, upper(Data.action).s \o S_ok)

\* C15, amended: a non-dropped DEVICE_CMD whose action is a non-empty string
\* and whose serial is a string gets exactly one publish: the Ack "<action
\* uppercased> ok" on farm/<F>/ack when the serial has a character that is no
\* white space, and the Err "missing action/serial" on farm/<F>/err when the
\* serial is empty or white space only.
C15_AckUnlessSerialBlank ==
    (Ended /\ cur.handler = "device" /\ ~cur.dropped
       /\ Chars("action") # <<>> /\ "serial" \in DOMAIN Data
       /\ Data.serial.t = "str") =>
        /\ Cardinality(Resp) = 1
        /\ \A i \in Resp :
             IF \E n \in DOMAIN Chars("serial") : ~is_space(Chars("serial")[n])
             THEN IsAck(i, GlobalAck, upper(Data.action).s \o S_ok)
             ELSE IsErr(i, GlobalErr, S_missing)

\* a serial of one blank, answered with the Err
C15_Witness ==
    /\ Ended /\ cur.handler = "device" /\ Chars("action") # <<>>
    /\ Chars("serial") = <<" ">>
    /\ \E i \in Resp : IsErr(i, GlobalErr, S_missing)

AckErrsOf(calls) ==
    SelectSeq(calls, LAMBDA e : e.op = "publish" /\ IsAckOrErrTopic(e.topic))

\* C16: the drop decision comes before the delay: a dropped command has no
\* sleep and no publish; a delay begins only for a command that was not
\* dropped, before anything is published for it; an Ack or Err is published
\* only by the step in which the delay ends, once per command.
C16_DropCheckBeforeDelay ==
    /\ [](cur.dropped => (cur.secs = -1 /\ Resp = {} /\ loop_pc # "sleeping"))
    /\ []((Routed /\ Resp # {}) =>
            (~cur.dropped /\ cur.secs >= 0 /\ Cardinality(Resp) = 1))
    /\ [][(loop_pc' = "sleeping" /\ loop_pc # "sleeping") =>
            (loop_pc = "idle" /\ ~cur'.dropped /\ cur'.secs >= 0 /\ log' = log)]_vars
    /\ [][Len(AckErrsOf(log')) # Len(AckErrsOf(log)) =>
            (loop_pc = "sleeping" /\ loop_pc' = "returning" /\ cur' = cur)]_vars

\* drop rate 0.5: a command was answered after its delay, the next is dropped
C16_Witness ==
    /\ args.drop_rate = 5
    /\ Ended /\ Routed /\ cur.dropped /\ cur.secs = -1
    /\ Len(AckErrs) = 1

\* C17: every message on an ack topic has ok true and its detail under note,
\* no reason; every message on an err topic has ok false and its detail
\* under reason, no note; all of them non-retained at QoS 0.
C17_AckAndErrShape ==
    \A i \in Publishes(log) :
        IsAckOrErrTopic(log[i].topic) =>
            /\ log[i].qos = 0 /\ log[i].retain = FALSE
            /\ IF log[i].topic[Len(log[i].topic)] = "ack"
               THEN /\ DOMAIN Sent(i) = {"corr", "ok", "note"}
                    /\ Sent(i).ok = JBool(TRUE) /\ Sent(i).note.t = "str"
               ELSE /\ DOMAIN Sent(i) = {"corr", "ok", "reason"}
                    /\ Sent(i).ok = JBool(FALSE) /\ Sent(i).reason.t = "str"

\* an Ack and an Err have been published
C17_Witness ==
    /\ \E i \in Publishes(log) : log[i].topic[Len(log[i].topic)] = "ack"
    /\ \E i \in Publishes(log) : log[i].topic[Len(log[i].topic)] = "err"

\* C18: handling an inbound message leaves the device's state as it was: the
\* configuration, the farm identity and the topic names never change, and
\* nothing of the message is kept once the callback has returned.
C18_HandlersKeepState ==
    /\ [][args' = args /\ sim' = sim]_vars
    /\ [](sim = init_sim(args))
    /\ [](loop_pc = "idle" => cur = NoMsg)

\* the second message, a motor command, has been answered
C18_Witness ==
    /\ Ended /\ cur.id = 2 /\ cur.handler = "motor" /\ Resp # {}

\* C19: one loop thread: while a handler is active no other message is
\* taken; every Ack or Err is published for the message taken last, while
\* its handler is active, so the responses come in the order of the commands.
C19_OneHandlerAtATime ==
    /\ [][(loop_pc = "sleeping" \/ loop_pc = "returning") =>
            (nmsgs' = nmsgs /\ (cur'.id = cur.id \/ cur' = NoMsg))]_vars
    /\ [][Len(AckErrsOf(log')) # Len(AckErrsOf(log)) =>
            (/\ Len(AckErrsOf(log')) = Len(AckErrsOf(log)) + 1
             /\ cur.id = nmsgs /\ cur' = cur)]_vars
    /\ [](cur.id > 0 => cur.id = nmsgs)

\* two commands answered, the second just now
C19_Witness ==
    /\ Ended /\ cur.id = 2 /\ Resp # {} /\ Len(AckErrs) = 2

\* C20: a connect callback with rc # 0 publishes nothing and subscribes to
\* nothing; no Ack or Err is published before an Online message.
C20_FailedConnectIsSilent ==
    /\ \A i \in DOMAIN log :
         (log[i].op = "on_connect" /\ log[i].rc # 0 /\ i < Len(log)) =>
            log[i + 1].op \notin {"publish", "subscribe"}
    /\ (subs # {} => conn = "up")
    /\ \A i \in Publishes(log) :
         IsAckOrErrTopic(log[i].topic) =>
            \E k \in 1 .. (i - 1) :
                /\ log[k].op = "publish"
                /\ log[k].topic = <<"farm", args.farm_id, "status">>
                /\ log[k].payload = OnlineText

\* a refused connection, then an accepted one and an answered command
C20_Witness ==
    /\ \E i \in DOMAIN log : log[i].op = "on_connect" /\ log[i].rc # 0
    /\ Len(AckErrs) >= 1

====
